---- MODULE Spec2Model ----
(***************************************************************************)
(* Clans service (src/app.py): four Flask handlers over one MySQL table,   *)
(* a fixed-size connection pool, a per-request connection kept in flask.g  *)
(* and returned by the teardown hook.                                      *)
(*                                                                         *)
(* Every worker handles one request at a time.  A request is a sequence of *)
(* steps: the handler up to and including get_db (Begin), the statement    *)
(* (Execute), the commit (Commit) and the teardown hook (close_db).        *)
(* The storage engine is modelled by what the handlers rely on: committed  *)
(* rows, one pending write per open transaction, a primary key on id, and  *)
(* a write to a row waiting for another transaction's pending write on it. *)
(***************************************************************************)
EXTENDS Integers, Sequences, FiniteSets, TLC

VARIABLES pc, req, resp, clan_id, g, held, pool_free, tx, table, issued,
          fault, created, deleted

vars == <<pc, req, resp, clan_id, g, held, pool_free, tx, table, issued,
          fault, created, deleted>>

----------------------------------------------------------------------------
(* Bounds and constants *)

NWorkers == 2

NPoolWorkers == 6

NumIds == 2

MaxTime == 2

PoolSizeTooLarge == 5 + 1

PoolSize == 5

Workers == 1..NWorkers

PoolWorkers == 1..NPoolWorkers

Ids == 1..NumIds

Times == 1..MaxTime

\* Python's None / SQL NULL / an absent JSON key or query parameter.
None == "<None>"

\* The names of the model, in lexicographic order.
NameOrder == <<"a", "b">>

Names == {NameOrder[i] : i \in 1..Len(NameOrder)}

Regions == {"", "US"}

Sorts == {None, "name", "created_at", "bogus"}

----------------------------------------------------------------------------
(* Values *)

NoRow == [id |-> 0, name |-> None, region |-> None, created_at |-> 0]

NoTx == [op |-> "none", row |-> NoRow]

NoReq == [kind |-> "none", body |-> "missing", name |-> None, region |-> None,
          id |-> 0, sort |-> None]

NoResp == [status |-> 0, error |-> None, id |-> 0, rows |-> <<>>]

NoCreated == [n |-> 0, name |-> None, region |-> None]

\* The body of a 500 that Flask produces for an exception no handler caught.
Unhandled == "Internal Server Error"

ErrorResp(status, msg) == [status |-> status, error |-> msg, id |-> 0, rows |-> <<>>]

\* POST /clans: no body, the empty object, an object without name, an object
\* with an empty name, and the valid objects.
CreateRequests ==
    {[kind |-> "create", body |-> "missing", name |-> None, region |-> None,
      id |-> 0, sort |-> None],
     [kind |-> "create", body |-> "empty", name |-> None, region |-> None,
      id |-> 0, sort |-> None],
     [kind |-> "create", body |-> "object", name |-> None, region |-> "US",
      id |-> 0, sort |-> None],
     [kind |-> "create", body |-> "object", name |-> "", region |-> None,
      id |-> 0, sort |-> None]}
    \cup {[kind |-> "create", body |-> "object", name |-> n, region |-> r,
           id |-> 0, sort |-> None] : n \in Names, r \in Regions \cup {None}}

ListRequests ==
    {[kind |-> "list", body |-> "missing", name |-> None, region |-> r,
      id |-> 0, sort |-> s] : r \in Regions \cup {None}, s \in Sorts}

GetRequests ==
    {[kind |-> "get", body |-> "missing", name |-> None, region |-> None,
      id |-> i, sort |-> None] : i \in Ids}

DeleteRequests ==
    {[kind |-> "delete", body |-> "missing", name |-> None, region |-> None,
      id |-> i, sort |-> None] : i \in Ids}

----------------------------------------------------------------------------
(* Helpers *)

W == DOMAIN pc

\* Python truthiness of request.get_json(): None and {} are falsy.
DataFalsy(r) == r.body \in {"missing", "empty"}

\* Python truthiness of data.get('name'): None and "" are falsy.
NameFalsy(r) == r.name \in {None, ""}

InvalidCreateNoNameCheck(r) == DataFalsy(r)

\* `if not data or not data.get('name')`
InvalidCreate(r) == DataFalsy(r) \/ NameFalsy(r)

uuid4ReusesIds == Ids

\* uuid.uuid4(): an identifier not generated before.
uuid4 == Ids \ issued

\* datetime.isoformat() + 'Z'
IsoFormatZ(t) == <<t, "Z">>

Render(row) == [row EXCEPT !.created_at = IsoFormatZ(row.created_at)]

\* Another open transaction holds a pending write on the row.
Locked(w, id) == \E w2 \in W \ {w} : tx[w2].op # "none" /\ tx[w2].row.id = id

NameRank(n) == CHOOSE i \in 1..Len(NameOrder) : NameOrder[i] = n

Perms(S) ==
    {s \in [1..Cardinality(S) -> S] : \A i, j \in DOMAIN s : i # j => s[i] # s[j]}

SortedBy(s, col) ==
    \A i, j \in DOMAIN s : i < j =>
        IF col = "name" THEN NameRank(s[i].name) <= NameRank(s[j].name)
        ELSE s[i].created_at <= s[j].created_at

StoredRows == {table[i] : i \in Ids} \ {NoRow}

----------------------------------------------------------------------------
(* The pool and the request-scoped connection *)

\* connection_pool.get_connection(): fails when the pool is exhausted or the
\* pooled connection cannot be re-established; a failure takes nothing.
GetConnectionSucceeds(connOk) == connOk /\ pool_free > 0

\* get_db(): the connection already in g, or a new one from the pool.
GetDbSucceeds(w, connOk) == g[w] \/ GetConnectionSucceeds(connOk)

get_db(w, connOk) ==
    IF ~g[w] /\ GetConnectionSucceeds(connOk)
    THEN /\ g' = [g EXCEPT ![w] = TRUE]
         /\ held' = [held EXCEPT ![w] = @ + 1]
         /\ pool_free' = pool_free - 1
    ELSE UNCHANGED <<g, held, pool_free>>

rollbackSkipped(w) == tx

\* db.rollback()
rollback(w) == [tx EXCEPT ![w] = NoTx]

commitSkippedOnDelete(w) ==
    IF tx[w].op = "insert" THEN [table EXCEPT ![tx[w].row.id] = tx[w].row]
    ELSE table

\* db.commit(): the transaction's pending write becomes the stored state.
commit(w) ==
    IF tx[w].op = "insert" THEN [table EXCEPT ![tx[w].row.id] = tx[w].row]
    ELSE IF tx[w].op = "delete" THEN [table EXCEPT ![tx[w].row.id] = NoRow]
    ELSE table

\* The except clause of a handler.  create_clan and delete_clan call
\* db.rollback() first; when get_db() raised, db is unbound and the clause
\* itself raises, so the request ends with Flask's own 500.
ExceptResp(kind, dbBound) ==
    IF kind \in {"create", "delete"} /\ ~dbBound
    THEN ErrorResp(500, Unhandled)
    ELSE ErrorResp(500, "Database operation failed")

Finish(w, r) ==
    /\ resp' = [resp EXCEPT ![w] = r]
    /\ pc' = [pc EXCEPT ![w] = "teardown"]

close_dbLeaks(w) ==
    /\ pc[w] = "teardown"
    /\ pc' = [pc EXCEPT ![w] = "idle"]
    /\ g' = [g EXCEPT ![w] = FALSE]
    /\ IF g[w] /\ resp[w].status < 400
       THEN /\ held' = [held EXCEPT ![w] = @ - 1]
            /\ pool_free' = pool_free + 1
       ELSE UNCHANGED <<held, pool_free>>
    /\ tx' = [tx EXCEPT ![w] = NoTx]
    /\ req' = [req EXCEPT ![w] = NoReq]
    /\ resp' = [resp EXCEPT ![w] = NoResp]
    /\ clan_id' = [clan_id EXCEPT ![w] = 0]
    /\ fault' = [fault EXCEPT ![w] = "none"]
    /\ UNCHANGED <<table, issued, created, deleted>>

\* The teardown hook: runs when the request's context ends, whatever the
\* handler did.  Closing a pooled connection resets its session, which
\* discards an open transaction, and puts it back in the pool.
close_db(w) ==
    /\ pc[w] = "teardown"
    /\ pc' = [pc EXCEPT ![w] = "idle"]
    /\ g' = [g EXCEPT ![w] = FALSE]
    /\ IF g[w]
       THEN /\ held' = [held EXCEPT ![w] = @ - 1]
            /\ pool_free' = pool_free + 1
       ELSE UNCHANGED <<held, pool_free>>
    /\ tx' = [tx EXCEPT ![w] = NoTx]
    /\ req' = [req EXCEPT ![w] = NoReq]
    /\ resp' = [resp EXCEPT ![w] = NoResp]
    /\ clan_id' = [clan_id EXCEPT ![w] = 0]
    /\ fault' = [fault EXCEPT ![w] = "none"]
    /\ UNCHANGED <<table, issued, created, deleted>>

----------------------------------------------------------------------------
(* POST /clans *)

CreateBegin(w, r, connOk) ==
    /\ pc[w] = "idle"
    /\ req' = [req EXCEPT ![w] = r]
    /\ IF InvalidCreate(r)
       THEN /\ Finish(w, ErrorResp(400, "Clan name is required"))
            /\ UNCHANGED <<clan_id, issued, g, held, pool_free, fault>>
       ELSE \E id \in uuid4 :
            /\ clan_id' = [clan_id EXCEPT ![w] = id]
            /\ issued' = issued \cup {id}
            /\ get_db(w, connOk)
            /\ IF GetDbSucceeds(w, connOk)
               THEN /\ pc' = [pc EXCEPT ![w] = "execute"]
                    /\ UNCHANGED <<resp, fault>>
               ELSE /\ Finish(w, ExceptResp("create", FALSE))
                    /\ fault' = [fault EXCEPT ![w] = "connect"]
    /\ UNCHANGED <<tx, table, created, deleted>>

\* cursor.execute(INSERT ...): the row is pending in the transaction; the
\* primary key rejects an id that is already stored.
CreateExecute(w, ok, t) ==
    /\ pc[w] = "execute"
    /\ req[w].kind = "create"
    /\ IF ok /\ table[clan_id[w]] = NoRow /\ ~Locked(w, clan_id[w])
       THEN /\ tx' = [tx EXCEPT ![w] =
                        [op |-> "insert",
                         row |-> [id |-> clan_id[w], name |-> req[w].name,
                                  region |-> req[w].region, created_at |-> t]]]
            /\ pc' = [pc EXCEPT ![w] = "commit"]
            /\ UNCHANGED <<resp, fault>>
       ELSE /\ tx' = rollback(w)
            /\ Finish(w, ExceptResp("create", TRUE))
            /\ fault' = [fault EXCEPT ![w] = "execute"]
    /\ UNCHANGED <<req, clan_id, g, held, pool_free, table, issued, created, deleted>>

\* db.commit() and the 201, or the except clause.
CreateCommit(w, ok) ==
    /\ pc[w] = "commit"
    /\ req[w].kind = "create"
    /\ IF ok
       THEN /\ table' = commit(w)
            /\ tx' = [tx EXCEPT ![w] = NoTx]
            /\ Finish(w, [status |-> 201, error |-> None, id |-> clan_id[w],
                          rows |-> <<>>])
            /\ created' = [created EXCEPT ![clan_id[w]] =
                             [n |-> @.n + 1, name |-> req[w].name,
                              region |-> req[w].region]]
            /\ UNCHANGED fault
       ELSE /\ tx' = rollback(w)
            /\ Finish(w, ExceptResp("create", TRUE))
            /\ fault' = [fault EXCEPT ![w] = "commit"]
            /\ UNCHANGED <<table, created>>
    /\ UNCHANGED <<req, clan_id, g, held, pool_free, issued, deleted>>

----------------------------------------------------------------------------
(* GET /clans *)

\* request.args.get('sort', 'created_at')
SortArg(r) == IF r.sort = None THEN "created_at" ELSE r.sort

\* `if region:` adds WHERE region = %s; None and "" add nothing.
Matching(r) ==
    IF r.region \notin {None, ""}
    THEN {row \in StoredRows : row.region = r.region}
    ELSE StoredRows

\* `if sort in ['created_at', 'name']` adds ORDER BY; without it the engine
\* returns the rows in an order of its choosing.
QueryResults(r) ==
    IF SortArg(r) \in {"created_at", "name"}
    THEN {s \in Perms(Matching(r)) : SortedBy(s, SortArg(r))}
    ELSE Perms(Matching(r))

ListBegin(w, r, connOk) ==
    /\ pc[w] = "idle"
    /\ req' = [req EXCEPT ![w] = r]
    /\ get_db(w, connOk)
    /\ IF GetDbSucceeds(w, connOk)
       THEN /\ pc' = [pc EXCEPT ![w] = "execute"]
            /\ UNCHANGED <<resp, fault>>
       ELSE /\ Finish(w, ExceptResp("list", FALSE))
            /\ fault' = [fault EXCEPT ![w] = "connect"]
    /\ UNCHANGED <<clan_id, tx, table, issued, created, deleted>>

ListExecute(w, ok) ==
    /\ pc[w] = "execute"
    /\ req[w].kind = "list"
    /\ IF ok
       THEN /\ \E s \in QueryResults(req[w]) :
                 Finish(w, [status |-> 200, error |-> None, id |-> 0,
                            rows |-> [i \in DOMAIN s |-> Render(s[i])]])
            /\ UNCHANGED fault
       ELSE /\ Finish(w, ExceptResp("list", TRUE))
            /\ fault' = [fault EXCEPT ![w] = "execute"]
    /\ UNCHANGED <<req, clan_id, g, held, pool_free, tx, table, issued, created, deleted>>

----------------------------------------------------------------------------
(* GET /clans/<id> *)

GetBegin(w, r, connOk) ==
    /\ pc[w] = "idle"
    /\ req' = [req EXCEPT ![w] = r]
    /\ get_db(w, connOk)
    /\ IF GetDbSucceeds(w, connOk)
       THEN /\ pc' = [pc EXCEPT ![w] = "execute"]
            /\ UNCHANGED <<resp, fault>>
       ELSE /\ Finish(w, ExceptResp("get", FALSE))
            /\ fault' = [fault EXCEPT ![w] = "connect"]
    /\ UNCHANGED <<clan_id, tx, table, issued, created, deleted>>

\* cursor.fetchone() of SELECT ... WHERE id = %s
FetchOne(id) == table[id]

GetExecute(w, ok) ==
    /\ pc[w] = "execute"
    /\ req[w].kind = "get"
    /\ IF ok
       THEN /\ IF FetchOne(req[w].id) = NoRow
               THEN Finish(w, ErrorResp(404, "Clan not found"))
               ELSE Finish(w, [status |-> 200, error |-> None, id |-> 0,
                               rows |-> <<Render(FetchOne(req[w].id))>>])
            /\ UNCHANGED fault
       ELSE /\ Finish(w, ExceptResp("get", TRUE))
            /\ fault' = [fault EXCEPT ![w] = "execute"]
    /\ UNCHANGED <<req, clan_id, g, held, pool_free, tx, table, issued, created, deleted>>

----------------------------------------------------------------------------
(* DELETE /clans/<id> *)

DeleteBegin(w, r, connOk) ==
    /\ pc[w] = "idle"
    /\ req' = [req EXCEPT ![w] = r]
    /\ get_db(w, connOk)
    /\ IF GetDbSucceeds(w, connOk)
       THEN /\ pc' = [pc EXCEPT ![w] = "execute"]
            /\ UNCHANGED <<resp, fault>>
       ELSE /\ Finish(w, ExceptResp("delete", FALSE))
            /\ fault' = [fault EXCEPT ![w] = "connect"]
    /\ UNCHANGED <<clan_id, tx, table, issued, created, deleted>>

\* cursor.rowcount of DELETE ... WHERE id = %s
RowCount(id) == IF table[id] = NoRow THEN 0 ELSE 1

RowMissingNever(rowcount) == FALSE

\* `if cursor.rowcount == 0`
RowMissing(rowcount) == rowcount = 0

\* cursor.execute(DELETE ...): waits while another transaction holds a
\* pending write on the row; a wait that times out is a storage failure.
DeleteExecute(w, ok) ==
    /\ pc[w] = "execute"
    /\ req[w].kind = "delete"
    /\ IF ok
       THEN /\ ~Locked(w, req[w].id)
            /\ tx' = [tx EXCEPT ![w] =
                        IF RowCount(req[w].id) = 0 THEN NoTx
                        ELSE [op |-> "delete", row |-> table[req[w].id]]]
            /\ IF RowMissing(RowCount(req[w].id))
               THEN Finish(w, ErrorResp(404, "Clan not found"))
               ELSE /\ pc' = [pc EXCEPT ![w] = "commit"]
                    /\ UNCHANGED resp
            /\ UNCHANGED fault
       ELSE /\ tx' = rollback(w)
            /\ Finish(w, ExceptResp("delete", TRUE))
            /\ fault' = [fault EXCEPT ![w] = "execute"]
    /\ UNCHANGED <<req, clan_id, g, held, pool_free, table, issued, created, deleted>>

\* db.commit() and the 200, or the except clause.
DeleteCommit(w, ok) ==
    /\ pc[w] = "commit"
    /\ req[w].kind = "delete"
    /\ IF ok
       THEN /\ table' = commit(w)
            /\ tx' = [tx EXCEPT ![w] = NoTx]
            /\ Finish(w, [status |-> 200, error |-> None, id |-> 0, rows |-> <<>>])
            /\ deleted' = [deleted EXCEPT ![req[w].id] = @ + 1]
            /\ UNCHANGED fault
       ELSE /\ tx' = rollback(w)
            /\ Finish(w, ExceptResp("delete", TRUE))
            /\ fault' = [fault EXCEPT ![w] = "commit"]
            /\ UNCHANGED <<table, deleted>>
    /\ UNCHANGED <<req, clan_id, g, held, pool_free, issued, created>>

----------------------------------------------------------------------------
(* Specifications *)

InitFor(ws) ==
    /\ pc = [w \in ws |-> "idle"]
    /\ req = [w \in ws |-> NoReq]
    /\ resp = [w \in ws |-> NoResp]
    /\ clan_id = [w \in ws |-> 0]
    /\ g = [w \in ws |-> FALSE]
    /\ held = [w \in ws |-> 0]
    /\ pool_free = PoolSize
    /\ tx = [w \in ws |-> NoTx]
    /\ table = [i \in Ids |-> NoRow]
    /\ issued = {}
    /\ fault = [w \in ws |-> "none"]
    /\ created = [i \in Ids |-> NoCreated]
    /\ deleted = [i \in Ids |-> 0]

Init == InitFor(Workers)

\* UTC_TIMESTAMP(): the storage clock, which does not run backwards: no
\* earlier than the created_at of a row stored or pending.
UtcTimestamp ==
    {t \in Times :
        /\ \A row \in StoredRows : row.created_at <= t
        /\ \A w \in W : tx[w].row.created_at <= t}

\* GET /clans without parameters.
PlainListRequests == {r \in ListRequests : r.region = None /\ r.sort = None}

CreateBeginStep == \E w \in W, r \in CreateRequests, c \in BOOLEAN : CreateBegin(w, r, c)

CreateExecuteStep == \E w \in W, ok \in BOOLEAN, t \in UtcTimestamp : CreateExecute(w, ok, t)

CreateCommitStep == \E w \in W, ok \in BOOLEAN : CreateCommit(w, ok)

PlainListBeginStep == \E w \in W, r \in PlainListRequests, c \in BOOLEAN : ListBegin(w, r, c)

ListBeginStep == \E w \in W, r \in ListRequests, c \in BOOLEAN : ListBegin(w, r, c)

ListExecuteStep == \E w \in W, ok \in BOOLEAN : ListExecute(w, ok)

GetBeginStep == \E w \in W, r \in GetRequests, c \in BOOLEAN : GetBegin(w, r, c)

GetExecuteStep == \E w \in W, ok \in BOOLEAN : GetExecute(w, ok)

DeleteBeginStep == \E w \in W, r \in DeleteRequests, c \in BOOLEAN : DeleteBegin(w, r, c)

DeleteExecuteStep == \E w \in W, ok \in BOOLEAN : DeleteExecute(w, ok)

DeleteCommitStep == \E w \in W, ok \in BOOLEAN : DeleteCommit(w, ok)

TeardownStep == \E w \in W : close_db(w)

\* Two workers, every handler, every storage failure; the list requests are
\* the ones without parameters.
Next ==
    \/ CreateBeginStep
    \/ CreateExecuteStep
    \/ CreateCommitStep
    \/ PlainListBeginStep
    \/ ListExecuteStep
    \/ GetBeginStep
    \/ GetExecuteStep
    \/ DeleteBeginStep
    \/ DeleteExecuteStep
    \/ DeleteCommitStep
    \/ TeardownStep

Spec == Init /\ [][Next]_vars

\* One worker, every handler, every list request.
InitList == InitFor({1})

NextList ==
    \/ CreateBeginStep
    \/ CreateExecuteStep
    \/ CreateCommitStep
    \/ ListBeginStep
    \/ ListExecuteStep
    \/ GetBeginStep
    \/ GetExecuteStep
    \/ DeleteBeginStep
    \/ DeleteExecuteStep
    \/ DeleteCommitStep
    \/ TeardownStep

SpecList == InitList /\ [][NextList]_vars

\* More workers than the pool has connections, reading and deleting over an
\* empty table (so no delete reaches its commit); the only storage failure
\* is the exhausted pool.
InitPool == InitFor(PoolWorkers)

PoolGetBeginStep == \E w \in W, r \in GetRequests : r.id = 1 /\ GetBegin(w, r, TRUE)

PoolGetExecuteStep == \E w \in W : GetExecute(w, TRUE)

PoolDeleteBeginStep == \E w \in W, r \in DeleteRequests : r.id = 1 /\ DeleteBegin(w, r, TRUE)

PoolDeleteExecuteStep == \E w \in W : DeleteExecute(w, TRUE)

NextPool ==
    \/ PoolGetBeginStep
    \/ PoolGetExecuteStep
    \/ PoolDeleteBeginStep
    \/ PoolDeleteExecuteStep
    \/ TeardownStep

SpecPool == InitPool /\ [][NextPool]_vars

----------------------------------------------------------------------------
(* Properties *)

RECURSIVE SumOver(_, _)
SumOver(f, S) ==
    IF S = {} THEN 0
    ELSE LET x == CHOOSE y \in S : TRUE IN f[x] + SumOver(f, S \ {x})

\* Connections checked out of the pool.
CheckedOut == SumOver(held, W)

\* The handler of worker w has returned (or raised): its response is decided.
Done(w) == pc[w] = "teardown"

\* The step is taken by worker w.
Acts(w) == pc[w] # pc'[w]

\* Worker w's handler returns (or raises) in this step.
Returns(w) == pc[w] # "teardown" /\ pc'[w] = "teardown"

\* C1: every request that met a storage failure (no connection, a failed
\* statement, a failed commit) answers 500 with the body
\* {"error": "Database operation failed"}.
C1_StorageFailureAnswers500Json ==
    \A w \in W : Done(w) /\ fault[w] # "none" =>
        resp[w] = ErrorResp(500, "Database operation failed")

\* C2: a worker whose request has completed holds no connection, and when
\* every request has completed the pool holds all its connections again.
C2_ConnectionsReturned ==
    /\ \A w \in W : pc[w] = "idle" => held[w] = 0 /\ ~g[w]
    /\ (\A w \in W : pc[w] = "idle") => pool_free = PoolSize /\ CheckedOut = 0

\* Every request has completed, among them a create that committed, a
\* delete that committed and a create that failed after taking its id.
C2_Witness ==
    /\ \A w \in W : pc[w] = "idle"
    /\ pool_free = PoolSize
    /\ \E i \in Ids : created[i].n = 1 /\ deleted[i] = 1
    /\ \E i \in issued : created[i].n = 0

C4_FailedWriteLeavesTable ==
    /\ [][\A w \in W : Acts(w) /\ table' # table =>
            Returns(w) /\ resp'[w].status \in {200, 201}]_vars
    /\ [](\A w \in W :
            Done(w) /\ req[w].kind \in {"create", "delete"} /\ resp[w].status = 500
            => /\ tx[w] = NoTx
               /\ req[w].kind = "create" => table[clan_id[w]] = NoRow)

\* A create whose commit failed, after its INSERT was pending, answered 500.
C4_Witness ==
    \E w \in W : Done(w) /\ req[w].kind = "create" /\ fault[w] = "commit"
                 /\ resp[w].status = 500

\* C5: the id of a 201 was never returned by an earlier 201 and is not the id
\* of a stored row; and a get-by-id of a created id, executed without failure
\* before any delete of that id has answered 200, answers 200 with that id and
\* the name and region of the create request (null when region was absent).
C5_CreateFreshAndRoundTrip ==
    /\ [](\A i \in Ids : created[i].n <= 1)
    /\ [][\A w \in W : Returns(w) /\ resp'[w].status = 201 =>
            /\ resp'[w].id \in Ids
            /\ table[resp'[w].id] = NoRow
            /\ created[resp'[w].id].n = 0]_vars
    /\ [][\A w \in W :
            Returns(w) /\ req[w].kind = "get" /\ fault'[w] = "none"
            /\ created[req[w].id].n > 0 /\ deleted[req[w].id] = 0
            => /\ resp'[w].status = 200
               /\ Len(resp'[w].rows) = 1
               /\ resp'[w].rows[1].id = req[w].id
               /\ resp'[w].rows[1].name = created[req[w].id].name
               /\ resp'[w].rows[1].region = created[req[w].id].region]_vars

\* A get-by-id has answered 200 for a clan created without a region.
C5_Witness ==
    \E w \in W : /\ Done(w) /\ req[w].kind = "get" /\ resp[w].status = 200
                 /\ created[req[w].id].n = 1
                 /\ created[req[w].id].region = None
                 /\ resp[w].rows[1].region = None

\* C6: absent storage failure, the DELETE statement finds the row exactly
\* when it is stored: the handler then goes on to commit, and answers 404
\* with the table unchanged otherwise; the commit that answers 200 removes
\* that row and no other; a delete that met no failure answers 200 or 404;
\* and a get-by-id executed without failure after a delete of its id has
\* answered 200 answers 404.
C6_DeleteRemovesExactlyTheRow ==
    /\ [][\A w \in W :
            Acts(w) /\ pc[w] = "execute" /\ req[w].kind = "delete"
            /\ fault'[w] = "none"
            => /\ table' = table
               /\ table[req[w].id] # NoRow => pc'[w] = "commit"
               /\ table[req[w].id] = NoRow =>
                    Returns(w) /\ resp'[w] = ErrorResp(404, "Clan not found")]_vars
    /\ [][\A w \in W :
            Returns(w) /\ req[w].kind = "delete" /\ resp'[w].status = 200
            => /\ table[req[w].id] # NoRow
               /\ table' = [table EXCEPT ![req[w].id] = NoRow]]_vars
    /\ [](\A w \in W :
            Done(w) /\ req[w].kind = "delete" /\ fault[w] = "none"
            => resp[w].status \in {200, 404})
    /\ [][\A w \in W :
            Returns(w) /\ req[w].kind = "get" /\ fault'[w] = "none"
            /\ deleted[req[w].id] > 0
            => resp'[w] = ErrorResp(404, "Clan not found")]_vars

\* A get-by-id has answered 404 for a clan that was created and deleted.
C6_Witness ==
    \E w \in W : /\ Done(w) /\ req[w].kind = "get" /\ resp[w].status = 404
                 /\ created[req[w].id].n = 1 /\ deleted[req[w].id] = 1

RenderedSortedBy(rows, col) ==
    \A i, j \in DOMAIN rows : i < j =>
        IF col = "name" THEN NameRank(rows[i].name) <= NameRank(rows[j].name)
        ELSE rows[i].created_at[1] <= rows[j].created_at[1]

\* C7: a list that answered 200 returns its rows in non-decreasing order of
\* name when sort=name, and of created_at for every other value of sort,
\* absent or not.
C7_ListSorted ==
    \A w \in W : Done(w) /\ req[w].kind = "list" /\ resp[w].status = 200 =>
        RenderedSortedBy(resp[w].rows,
                         IF req[w].sort = "name" THEN "name" ELSE "created_at")

\* C8: a list that answered 200 returns exactly the stored clans whose region
\* equals the supplied region parameter, and all stored clans when no region
\* is supplied.  (With one worker the table cannot change between the
\* statement and the end of the request.)
C8_ListFiltered ==
    \A w \in W : Done(w) /\ req[w].kind = "list" /\ resp[w].status = 200 =>
        {resp[w].rows[i] : i \in DOMAIN resp[w].rows} =
            {Render(row) : row \in
                {x \in StoredRows : req[w].region # None => x.region = req[w].region}}

\* C9: at most 5 connections are checked out, and no request holds more than
\* one: a request has one connection exactly when g holds db_conn.
C9_PoolBounded ==
    /\ CheckedOut <= 5
    /\ \A w \in W : held[w] <= 1 /\ (g[w] <=> held[w] = 1)

\* Five requests hold the five connections and a sixth was refused.
C9_Witness ==
    /\ CheckedOut = 5
    /\ pool_free = 0
    /\ \E w \in W : Done(w) /\ fault[w] = "connect" /\ ~g[w]

\* C10: for every id at most one delete answers 200; a delete that met no
\* storage failure answers 200 or 404, and when it answers the row is
\* absent; once a delete of the id has answered 200 the row stays absent.
C10_DeleteAtMostOnce ==
    /\ [](\A i \in Ids : deleted[i] <= 1 /\ (deleted[i] > 0 => table[i] = NoRow))
    /\ [][\A w \in W :
            Returns(w) /\ req[w].kind = "delete" /\ fault'[w] = "none"
            => /\ resp'[w].status \in {200, 404}
               /\ table'[req[w].id] = NoRow]_vars

\* Two deletes of one id, on two workers at once: one answered 200 and the
\* other 404.
C10_Witness ==
    \E w1, w2 \in W :
        /\ w1 # w2 /\ Done(w1) /\ Done(w2)
        /\ req[w1].kind = "delete" /\ req[w2].kind = "delete"
        /\ req[w1].id = req[w2].id
        /\ resp[w1].status = 200 /\ resp[w2].status = 404

====
